---- MODULE Spec2Model ----
(***************************************************************************)
(* Ledger and authorization engine of the digital wallet (src/app.py).     *)
(*                                                                         *)
(* Money is counted in mills (1/1000 of a rupee) so that an amount with    *)
(* more than two decimals and its 2-decimal rounding are both integers.    *)
(* A balance is the binary float the code computes: its value in mills     *)
(* and, next to it, what the float has above or below them.                *)
(* The clock `now` is time.time() in milliseconds, as the first clock      *)
(* reading of the next call finds it; within a call time passes between    *)
(* two readings and during a sleep, and while a call sleeps other calls    *)
(* run.  Transaction and                                                   *)
(* request ids are the integer N of "txn_N" / "req_N".  The `note` and     *)
(* `timestamp` fields of the records and the display output (st.error,     *)
(* st.success) are presentation; the message a handler shows is kept as    *)
(* the outcome tag of `last`.                                              *)
(***************************************************************************)
EXTENDS Integers, Sequences, FiniteSets, TLC

VARIABLES accounts,        \* st.session_state.data["accounts"]
          logged_in_user,  \* st.session_state.logged_in_user
          page,            \* st.session_state.page
          now,             \* the wall clock, in milliseconds
          last,            \* history: the last handler call and its outcome
          strikes,         \* history: wrong login PINs since the last success or lockout
          paid_count,      \* history: per request, how many calls moved money for it
          ops,             \* history: handler calls that changed the store or moved the clock
          asleep           \* the calls of handle_account_creation inside time.sleep

vars == <<accounts, logged_in_user, page, now, last, strikes, paid_count, ops,
          asleep>>

(***************************************************************************)
(* S2: constants                                                           *)
(***************************************************************************)
LOCKOUT_DURATION_SECONDS == 60
MAX_LOGIN_ATTEMPTS == 3
MsPerSecond == 1000

\* time.sleep(2) of line 367
SLEEP_SECONDS == 2

SleepMs == SLEEP_SECONDS * MsPerSecond

LockoutMs == LOCKOUT_DURATION_SECONDS * MsPerSecond

(***************************************************************************)
(* Bounds of the model                                                     *)
(***************************************************************************)
MaxOps == 3         \* handler calls that change the store
MaxTicks == 2       \* lockout periods of clock explored
MaxTime == 1 + MaxTicks * LockoutMs

None == "None"

\* A text is the sequence of the code points of its characters.  ord gives
\* the code point of a digit 0-9 or of a letter a-z, Chars the text of a
\* string of such characters.
ord(c) ==
    IF \E k \in 1 .. 10 : SubSeq("0123456789", k, k) = c
    THEN 47 + (CHOOSE k \in 1 .. 10 : SubSeq("0123456789", k, k) = c)
    ELSE 96 + (CHOOSE k \in 1 .. 26 :
                   SubSeq("abcdefghijklmnopqrstuvwxyz", k, k) = c)

Chars(s) == [i \in 1 .. Len(s) |-> ord(SubSeq(s, i, i))]

\* the Arabic-Indic digits one to four, U+0661 to U+0664
ArabicIndic1234 == <<1633, 1634, 1635, 1636>>

Actors == {"alice"}
Receivers == {"alice", "bob", "zed"}
PinInputs == {Chars("1111"), Chars("2222")}
Amounts == {400000, 900000}
\* 830.0 - 828.7 is the float 1.2999999999999545, which is below 1.3
ChangeAmounts == {828700, 1300}
Requesters == {"alice"}
SplitTotals == {200000, 1350030}
PayerLists == {<<>>, <<"bob">>, <<"bob", "charlie">>, <<"zed">>}
CategoryInputs == {"Food"}
Elapsed == {0, 1}
TickSteps == {LockoutMs - 1, LockoutMs}
NewUsernames == {"", "alice", "zed"}
DisplayNames == {"", "Zed Zebra"}
NewPins == {Chars("9999"), Chars("99"), Chars("12ab")}
NewPinInputs == {Chars("9999"), Chars("99"), Chars("12ab"), ArabicIndic1234}
InitialAmounts == {0, 50000}

\* the registration form as it is submitted with an initial deposit: filled
\* in well, or with one thing wrong: the username empty or taken, the name
\* empty, the PIN too short or not of digits, or the second entry of the
\* PIN not the first
CreationForms ==
    {f \in [username : NewUsernames, display_name : DisplayNames,
            pin1 : NewPins, pin2 : NewPins,
            initial_amount : InitialAmounts \ {0}] :
        Cardinality({k \in 1 .. 4 :
            <<f.username # "zed", f.display_name = "",
              f.pin1 # Chars("9999"), f.pin2 # f.pin1>>[k]}) <= 1}

\* the two entries of the new PIN in the settings form
NewPinEntries ==
    {<<Chars("9999"), Chars("9999")>>, <<ArabicIndic1234, ArabicIndic1234>>,
     <<Chars("99"), Chars("99")>>, <<Chars("12ab"), Chars("12ab")>>,
     <<Chars("9999"), ArabicIndic1234>>, <<Chars("12ab"), Chars("9999")>>}

\* the amount typed into the deposit and the transfer form of the pages
PageAmounts == {400000}

\* the two entries of the new PIN in the Change PIN page, where the PINs
\* the other forms are given are the ones a user can change to
PagePinEntries ==
    {<<Chars("1111"), Chars("1111")>>, <<Chars("2222"), Chars("2222")>>,
     <<Chars("2222"), Chars("1111")>>, <<Chars("12ab"), Chars("12ab")>>}

(***************************************************************************)
(* get_initial_mock_data                                                   *)
(***************************************************************************)
MockAccount(pin, balance, display_name) ==
    [pin |-> pin, balance |-> balance, balance_drift |-> 0,
     transactions |-> <<>>,
     failed_attempts |-> 0, locked_until |-> 0, requests |-> <<>>,
     display_name |-> display_name]

get_initial_mock_data ==
    [u \in {"alice", "bob", "charlie", "disha"} |->
        CASE u = "alice"   -> MockAccount(Chars("1111"), 830000, "Alice Wonderland")
          [] u = "bob"     -> MockAccount(Chars("2222"), 625000, "Bob Builder")
          [] u = "charlie" -> MockAccount(Chars("3333"), 300000, "Charlie Chaplin")
          [] u = "disha"   -> MockAccount(Chars("4444"), 100000, "Disha Patani")]

(***************************************************************************)
(* S4: factory functions                                                   *)
(***************************************************************************)
\* An amount of t mills is, in the code, the binary float nearest to
\* t / 1000, and round(x, 2) rounds the float, not the decimal: a quotient
\* that lies exactly between two cents in decimal goes to the side on which
\* its float lies (round(2.675, 2) is 2.67, round(0.05 / 2, 2) is 0.03).
\* The operators below find that side with integers only.
RECURSIVE Pow2(_)
Pow2(k) == IF k = 0 THEN 1 ELSE 2 * Pow2(k - 1)

\* 2^p modulo m
RECURSIVE Pow2Mod(_, _)
Pow2Mod(p, m) == IF p = 0 THEN 1 % m ELSE (2 * Pow2Mod(p - 1, m)) % m

\* the binary exponent E of t / 1000, t > 0: 2^E <= t / 1000 < 2^(E + 1)
RECURSIVE FloatExponent(_)
FloatExponent(t) ==
    IF t >= 2000 THEN FloatExponent(t \div 2) + 1
    ELSE IF t < 1000 THEN FloatExponent(2 * t) - 1
    ELSE 0

\* The sign of  fl(fl(t / 1000) / n) - t / (1000 n)  for t > 0 mills and
\* n >= 1: fl(t / 1000) has the 53-bit mantissa M1 nearest to
\* z1 = t 2^p1 / 1000, and the float quotient the mantissa M2 nearest to
\* M1 2^q / n; s1 / 1000 = M1 - z1 and s2 / n = M2 - M1 2^q / n are the two
\* rounding errors, found from remainders modulo 2000 n.
FloatErrorSign(t, n) ==
    LET E   == FloatExponent(t)
        p1  == 52 - E
        mod == 2000 * n
        z   == ((t % mod) * Pow2Mod(p1, mod)) % mod
        A   == z % 1000
        s1  == IF A < 500 THEN -A
               ELSE IF A > 500 THEN 1000 - A
               ELSE IF (((z % 2000) - 500) \div 1000) % 2 = 0 THEN -500
               ELSE 500
        M1  == ((z + s1) % mod) \div 1000
        Reaches(q) == IF E >= q THEN t \div n >= 1000 * Pow2(E - q)
                      ELSE t * Pow2(q - E) >= 1000 * n
        q   == CHOOSE k \in 0 .. 10 :
                   Reaches(k) /\ \A j \in 0 .. k - 1 : ~Reaches(j)
        w   == (M1 * Pow2(q)) % (2 * n)
        r2  == w % n
        s2  == IF 2 * r2 < n THEN -r2
               ELSE IF 2 * r2 > n THEN n - r2
               ELSE IF ((w - r2) \div n) % 2 = 0 THEN -r2
               ELSE n - r2
        d   == 1000 * s2 + Pow2(q) * s1
    IN  IF d > 0 THEN 1 ELSE IF d < 0 THEN -1 ELSE 0

\* round(float(t / 1000) / n, 2) in mills, for t >= 0 and n >= 1
RoundQuotient(t, n) ==
    LET cent == 10 * n
        c == t \div cent
        r == t - c * cent
    IN  IF 2 * r < cent THEN c * 10
        ELSE IF 2 * r > cent THEN (c + 1) * 10
        ELSE LET side == FloatErrorSign(t, n)
             IN  IF side > 0 THEN (c + 1) * 10
                 ELSE IF side < 0 THEN c * 10
                 \* the float is the decimal: the tie goes to the even cent
                 ELSE IF c % 2 = 0 THEN c * 10 ELSE (c + 1) * 10

\* round(float(amount), 2) of lines 68 and 72, in mills
Round2(m) == IF m >= 0 THEN RoundQuotient(m, 1) ELSE -RoundQuotient(-m, 1)

\* A balance is a binary float.  The model writes the float x as the pair
\* <<m, d>>: m is x in mills, to the nearest mill, and d is what |x| has
\* above floor(|m| 2^62 / 1000) grains, a grain being 2^-62 rupee:
\*     x = (floor(m 2^62 / 1000) + d) / 2^62         for x >= 0,
\* and -x is <<-m, -d>>.  Every float of magnitude 0.001 or more is a whole
\* number of grains, and so is every sum or difference of two of them.
\* The operators keep to 32-bit integers for magnitudes below 2^19 rupees.
\*
\* floor(a 2^62 / 1000) is (a 2^59 - rest) / 125, rest being a 2^59 mod 125.
\* GrainsRest(a) is that rest, in 125ths of a grain, with the sign of a.
RestOfMill == (Pow2Mod(30, 125) * Pow2Mod(29, 125)) % 125

GrainsRest(a) ==
    IF a >= 0 THEN ((a % 125) * RestOfMill) % 125
    ELSE -((((-a) % 125) * RestOfMill) % 125)

\* the last w bits of t / 125 as a 2-adic number: the q < 2^w with
\* 125 q = t modulo 2^w, bit by bit from the lowest
RECURSIVE LowBitsOver125(_, _)
LowBitsOver125(t, w) ==
    IF w = 0 THEN 0
    ELSE (t % 2) + 2 * LowBitsOver125((t - 125 * (t % 2)) \div 2, w - 1)

\* floor(a 2^62 / 1000) modulo 2^30, for a >= 0: a 2^59 is 0 modulo 2^30,
\* which leaves -rest / 125
LowGrains == [rest \in 0 .. 124 |-> LowBitsOver125(-rest, 30)]

GrainsLow(a) == LowGrains[GrainsRest(a)]

\* The grains from one float to the next at t / 1000, t > 0 mills: 2^(E + 10)
\* for the binary exponent E of t / 1000 (a float of exponent E is a
\* multiple of 2^(E - 52), and a grain is 2^-62).
RECURSIVE Ulp(_)
Ulp(t) ==
    IF t >= 2000 THEN 2 * Ulp(t \div 2)
    ELSE IF t < 1000 THEN Ulp(2 * t) \div 2
    ELSE 1024

\* t / 1000 is a power of two
RECURSIVE IsPowerOfTwo(_)
IsPowerOfTwo(t) ==
    IF t >= 2000 THEN t % 2 = 0 /\ IsPowerOfTwo(t \div 2)
    ELSE IF t < 1000 THEN IsPowerOfTwo(2 * t)
    ELSE t = 1000

\* Rounding to the nearest float, ties to the even mantissa: the d of the
\* float nearest to  floor(a 2^62 / 1000) + r0 + phi / 125  grains, for
\* a > 0 mills, r0 small and 0 <= phi < 125.  The float is a multiple of
\* `unit` grains, unit being Ulp(a), or half of it where a / 1000 is a
\* power of two and the value lies below it; `low` is the value modulo
\* 2 unit.
RoundAt(r0, phi, low, unit) ==
    IF 2 * (low % unit) < unit THEN r0 - (low % unit)
    ELSE IF 2 * (low % unit) > unit \/ phi > 0 THEN r0 - (low % unit) + unit
    \* a tie: to the even mantissa
    ELSE IF low >= unit THEN r0 - (low % unit) + unit
    ELSE r0 - (low % unit)

RoundWith(a, r0, phi, unit) ==
    IF unit = 1 THEN (IF 2 * phi > 125 THEN r0 + 1 ELSE r0)
    ELSE RoundAt(r0, phi, (GrainsLow(a) + r0) % (2 * unit), unit)

RoundToDouble(a, r0, phi) ==
    IF r0 = 0 /\ phi = 0 /\ a % 125 = 0 THEN 0
    ELSE RoundWith(a, r0, phi,
                   IF r0 < 0 /\ IsPowerOfTwo(a) THEN Ulp(a) \div 2
                   ELSE Ulp(a))

FloatNeg(x) == <<-x[1], -x[2]>>

\* the float nearest to  a 2^62 / 1000 + r - c / 125  grains
NearestFloat(a, r, c) ==
    LET Positive(b, q, k) ==
            LET t == GrainsRest(b) - k
            IN  <<b, RoundToDouble(b, q + (t \div 125), t % 125)>>
    IN  IF a = 0 THEN <<0, r>>
        ELSE IF a > 0 THEN Positive(a, r, c)
        ELSE FloatNeg(Positive(-a, -r, -c))

\* float(m / 1000): the float nearest to the decimal of m mills
ToFloat(m) == NearestFloat(m, 0, 0)

\* x + y and x - y as the float unit computes them
FloatAdd(x, y) ==
    NearestFloat(x[1] + y[1], x[2] + y[2], GrainsRest(x[1]) + GrainsRest(y[1]))

FloatSub(x, y) == FloatAdd(x, FloatNeg(y))

\* x > y
FloatGreater(x, y) == IF x[1] # y[1] THEN x[1] > y[1] ELSE x[2] > y[2]

\* the float an account holds as its balance
BalanceOf(user_data) == <<user_data.balance, user_data.balance_drift>>

create_transaction_record(txn_type, amount, category, counterparty, t) ==
    [id |-> t, type |-> txn_type, amount |-> Round2(amount),
     category |-> category, counterparty |-> counterparty]

create_payment_request_record(requester, amount, t) ==
    [id |-> t, requester |-> requester, amount |-> Round2(amount),
     status |-> "pending"]

(***************************************************************************)
(* Helpers over the store                                                  *)
(***************************************************************************)
Usernames == DOMAIN accounts

Locked(u) == now < accounts[u].locked_until

\* the budget of store-changing calls, and its use by a step
Budget == ops < MaxOps

Spend ==
    ops' = IF accounts' = accounts /\ now' = now THEN ops ELSE ops + 1

\* `last`: the handler called, the account it was called for, the message
\* it ended with (or the exception it raised) and whether the PIN given was
\* the account's PIN ("na" for a handler that takes no PIN)
Outcome(op, user, outcome) ==
    [op |-> op, user |-> user, outcome |-> outcome, pin_ok |-> "na"]

OutcomePin(op, user, outcome, pin) ==
    [op |-> op, user |-> user, outcome |-> outcome,
     pin_ok |-> IF user \notin Usernames THEN "na"
                ELSE IF pin = accounts[user].pin THEN "yes" ELSE "no"]

\* line 344: the lockout window is open at clock reading t
IsLocked_early(user_acc, t) == t + 1 < user_acc.locked_until

IsLocked_late(user_acc, t) == t <= user_acc.locked_until

IsLocked(user_acc, t) == t < user_acc.locked_until

\* lines 373, 399, 427: the amount, a float, is more than the float the
\* balance holds; two floats that are not the same to the mill compare as
\* their mills do
Exceeds_flipped(amount, balance) == amount < balance[1]

Exceeds(amount, balance) ==
    IF amount # balance[1] THEN amount > balance[1]
    ELSE FloatGreater(ToFloat(amount), balance)

Init ==
    /\ accounts = get_initial_mock_data
    /\ logged_in_user = None
    /\ page = "login"
    /\ now = 1
    /\ last = Outcome("init", None, "ok")
    /\ strikes = [u \in DOMAIN get_initial_mock_data |-> 0]
    /\ paid_count = [u \in DOMAIN get_initial_mock_data |-> <<>>]
    /\ ops = 0
    /\ asleep = {}

(***************************************************************************)
(* The clock                                                               *)
(***************************************************************************)
\* line 367-368: a call asleep whose 2 s are over when the clock is read
\* again has woken in between and switched the page
StillAsleep(t) == {call \in asleep : call.since + SleepMs >= t}

Tick ==
    \E d \in TickSteps :
        /\ now + d <= MaxTime
        /\ now' = now + d
        /\ asleep' = StillAsleep(now + d)
        /\ page' = IF asleep' # asleep THEN "login" ELSE page
        /\ last' = Outcome("tick", None, "ok")
        /\ UNCHANGED <<accounts, logged_in_user, strikes, paid_count, ops>>

(***************************************************************************)
(* S7: handle_login_attempt                                                *)
(***************************************************************************)
\* Line 344 reads the clock, and the call reads it a second time where it
\* goes on to line 345 (the account is locked: the seconds left, for the
\* message) or to line 352 (the third wrong PIN: the end of the lockout);
\* e is the time that passes between the two readings.
handle_login_attempt(username, pin) ==
    IF username \in Usernames THEN
        LET user_acc == accounts[username] IN
        IF IsLocked(user_acc, now) THEN
            \E e \in Elapsed :
                /\ now' = now + e
                /\ last' = OutcomePin("login", username, "AccountLocked", pin)
                /\ UNCHANGED <<accounts, logged_in_user, page, strikes>>
        ELSE IF user_acc.pin = pin THEN
            /\ accounts' = [accounts EXCEPT ![username].failed_attempts = 0]
            /\ logged_in_user' = username
            /\ page' = "dashboard"
            /\ strikes' = [strikes EXCEPT ![username] = 0]
            /\ last' = OutcomePin("login", username, "ok", pin)
            /\ UNCHANGED now
        ELSE
            LET n == user_acc.failed_attempts + 1 IN
            IF n >= MAX_LOGIN_ATTEMPTS THEN
                \E e \in Elapsed :
                    /\ accounts' =
                         [accounts EXCEPT
                            ![username].failed_attempts = n,
                            ![username].locked_until = now + e + LockoutMs]
                    /\ now' = now + e
                    /\ strikes' = [strikes EXCEPT ![username] = 0]
                    /\ last' = OutcomePin("login", username, "AccountLocked",
                                          pin)
                    /\ UNCHANGED <<logged_in_user, page>>
            ELSE
                /\ accounts' = [accounts EXCEPT ![username].failed_attempts = n]
                /\ strikes' = [strikes EXCEPT ![username] = @ + 1]
                /\ last' = OutcomePin("login", username, "InvalidPin", pin)
                /\ UNCHANGED <<logged_in_user, page, now>>
    ELSE
        /\ last' = OutcomePin("login", username, "NotFound", pin)
        /\ UNCHANGED <<accounts, logged_in_user, page, strikes, now>>

\* the budget counts the login attempts during which the clock moved
SpendTime ==
    /\ ops' = IF now' = now THEN ops ELSE ops + 1
    /\ ops' <= MaxOps

LoginAttempt ==
    \E username \in Receivers, pin \in PinInputs :
        /\ UNCHANGED asleep
        /\ handle_login_attempt(username, pin)
        /\ UNCHANGED paid_count
        /\ SpendTime

handle_logout ==
    /\ logged_in_user' = None
    /\ page' = "login"
    /\ last' = Outcome("logout", logged_in_user, "ok")
    /\ UNCHANGED <<accounts, now, strikes, paid_count, ops, asleep>>

(***************************************************************************)
(* S7: handle_account_creation                                             *)
(***************************************************************************)
\* str.isdigit of line 363 is true of a text that is not empty and whose
\* characters all are digits to Unicode (Numeric_Type Decimal or Digit):
\* 0-9 and, among others, the digits of other scripts, the superscripts,
\* the subscripts and the circled digits.  DigitRanges lists them, each
\* pair the first and the last code point of a run (Unicode 14.0.0, the
\* database of the Python 3.11 the program runs on).
DigitRanges ==
    {<<48, 57>>, <<178, 179>>, <<185, 185>>, <<1632, 1641>>, <<1776, 1785>>,
     <<1984, 1993>>, <<2406, 2415>>, <<2534, 2543>>, <<2662, 2671>>,
     <<2790, 2799>>, <<2918, 2927>>, <<3046, 3055>>, <<3174, 3183>>,
     <<3302, 3311>>, <<3430, 3439>>, <<3558, 3567>>, <<3664, 3673>>,
     <<3792, 3801>>, <<3872, 3881>>, <<4160, 4169>>, <<4240, 4249>>,
     <<4969, 4977>>, <<6112, 6121>>, <<6160, 6169>>, <<6470, 6479>>,
     <<6608, 6618>>, <<6784, 6793>>, <<6800, 6809>>, <<6992, 7001>>,
     <<7088, 7097>>, <<7232, 7241>>, <<7248, 7257>>, <<8304, 8304>>,
     <<8308, 8313>>, <<8320, 8329>>, <<9312, 9320>>, <<9332, 9340>>,
     <<9352, 9360>>, <<9450, 9450>>, <<9461, 9469>>, <<9471, 9471>>,
     <<10102, 10110>>, <<10112, 10120>>, <<10122, 10130>>, <<42528, 42537>>,
     <<43216, 43225>>, <<43264, 43273>>, <<43472, 43481>>, <<43504, 43513>>,
     <<43600, 43609>>, <<44016, 44025>>, <<65296, 65305>>, <<66720, 66729>>,
     <<68160, 68163>>, <<68912, 68921>>, <<69216, 69224>>, <<69714, 69722>>,
     <<69734, 69743>>, <<69872, 69881>>, <<69942, 69951>>, <<70096, 70105>>,
     <<70384, 70393>>, <<70736, 70745>>, <<70864, 70873>>, <<71248, 71257>>,
     <<71360, 71369>>, <<71472, 71481>>, <<71904, 71913>>, <<72016, 72025>>,
     <<72784, 72793>>, <<73040, 73049>>, <<73120, 73129>>, <<92768, 92777>>,
     <<92864, 92873>>, <<93008, 93017>>, <<120782, 120831>>,
     <<123200, 123209>>, <<123632, 123641>>, <<125264, 125273>>,
     <<127232, 127242>>, <<130032, 130041>>}

IsDigitChar(c) == \E run \in DigitRanges : run[1] <= c /\ c <= run[2]

isdigit(text) ==
    /\ Len(text) > 0
    /\ \A i \in 1 .. Len(text) : IsDigitChar(text[i])

\* lines 363 and 437: len(pin) == 4 and pin.isdigit()
IsFourDigits_len(pin) == Len(pin) = 4

IsFourDigits_lax(pin) == Len(pin) \in {2, 4}

IsFourDigits(pin) == Len(pin) = 4 /\ isdigit(pin)

handle_account_creation(username, display_name, pin1, pin2, initial_amount) ==
    IF username = "" \/ display_name = "" THEN
        /\ last' = Outcome("create", username, "InvalidFormat")
        /\ UNCHANGED <<accounts, page, strikes, paid_count, now, asleep>>
    ELSE IF username \in Usernames THEN
        /\ last' = Outcome("create", username, "AlreadyExists")
        /\ UNCHANGED <<accounts, page, strikes, paid_count, now, asleep>>
    ELSE IF ~IsFourDigits(pin1) THEN
        /\ last' = Outcome("create", username, "InvalidFormat")
        /\ UNCHANGED <<accounts, page, strikes, paid_count, now, asleep>>
    ELSE IF pin1 # pin2 THEN
        /\ last' = Outcome("create", username, "Mismatch")
        /\ UNCHANGED <<accounts, page, strikes, paid_count, now, asleep>>
    ELSE
        \* line 367: the account is stored, the success message is shown
        \* and the call goes to sleep, the page not yet switched
        /\ last' = Outcome("create", username, "sleeping")
        /\ asleep' = asleep \cup {[user |-> username, since |-> now]}
        /\ accounts' =
             [u \in Usernames \cup {username} |->
                IF u = username
                THEN [pin |-> pin1, balance |-> initial_amount,
                      balance_drift |-> ToFloat(initial_amount)[2],
                      display_name |-> display_name,
                      transactions |->
                          <<create_transaction_record("deposit", initial_amount,
                                                      None, "self", now)>>,
                      failed_attempts |-> 0, locked_until |-> 0,
                      requests |-> <<>>]
                ELSE accounts[u]]
        /\ strikes' = [u \in Usernames \cup {username} |->
                          IF u = username THEN 0 ELSE strikes[u]]
        /\ paid_count' = [u \in Usernames \cup {username} |->
                          IF u = username THEN <<>> ELSE paid_count[u]]
        /\ UNCHANGED <<page, now>>

\* Lines 367-368, the rest of a call that has stored the account: it wakes
\* 2 s after it went to sleep, or a little later, and switches the page.
\* Nothing in the code keeps other calls from running during the sleep.
account_created ==
    \E call \in asleep, e \in Elapsed :
        /\ now' = call.since + SleepMs + e
        /\ asleep' = asleep \ {call}
        /\ page' = "login"
        /\ last' = Outcome("create", call.user, "ok")
        /\ UNCHANGED <<accounts, logged_in_user, strikes, paid_count, ops>>

CreateAccount ==
    \E f \in CreationForms :
        /\ Budget
        /\ handle_account_creation(f.username, f.display_name, f.pin1, f.pin2,
                                   f.initial_amount)
        /\ UNCHANGED logged_in_user
        /\ Spend

\* the form filled in with a full name and a well-formed PIN, typed twice,
\* and the smallest initial deposit the form admits (line 142)
OpenAccount ==
    \E username \in NewUsernames :
        /\ Budget
        /\ handle_account_creation(username, "Zed Zebra", Chars("9999"),
                                   Chars("9999"), 0)
        /\ UNCHANGED logged_in_user
        /\ Spend

(***************************************************************************)
(* S7: handle_transfer                                                     *)
(***************************************************************************)
\* The two balance updates and the two appends of lines 375-378, 402-405
\* and 447-450, in the order the code makes them; t1 and t2 are the clock
\* readings of the two create_transaction_record calls.
\*
\* The balance of an account is the float the code holds: `balance` is its
\* value in mills and `balance_drift` what it has above that many mills, in
\* grains (BalanceOf).  100.0 - 99.9 leaves 0.09999999999999432, which is
\* balance 100 with a negative drift, and less than 0.1.
SetBalance(accs, user, x) ==
    [accs EXCEPT ![user].balance = x[1], ![user].balance_drift = x[2]]

Debit_credit(accs, sender, amount) ==
    SetBalance(accs, sender,
               FloatAdd(BalanceOf(accs[sender]), ToFloat(amount)))

Debit(accs, sender, amount) ==
    SetBalance(accs, sender,
               FloatSub(BalanceOf(accs[sender]), ToFloat(amount)))

Credit(accs, receiver, amount) ==
    SetBalance(accs, receiver,
               FloatAdd(BalanceOf(accs[receiver]), ToFloat(amount)))

AppendTxn(accs, user, txn) ==
    [accs EXCEPT ![user].transactions = Append(@, txn)]

MoveMoney_unpaired(accs, sender, receiver, amount, kind, category, t1, t2) ==
    LET a1 == Debit(accs, sender, amount)
        a2 == Credit(a1, receiver, amount)
    IN  AppendTxn(a2, sender,
                  create_transaction_record(kind \o "_out", amount, category,
                                            receiver, t1))

MoveMoney_reversed(accs, sender, receiver, amount, kind, category, t1, t2) ==
    LET a1 == Debit(accs, receiver, amount)
        a2 == Credit(a1, sender, amount)
        a3 == AppendTxn(a2, sender,
                  create_transaction_record(kind \o "_out", amount, category,
                                            receiver, t1))
    IN  AppendTxn(a3, receiver,
                  create_transaction_record(kind \o "_in", amount, None,
                                            sender, t2))

MoveMoney(accs, sender, receiver, amount, kind, category, t1, t2) ==
    LET a1 == Debit(accs, sender, amount)
        a2 == Credit(a1, receiver, amount)
        a3 == AppendTxn(a2, sender,
                  create_transaction_record(kind \o "_out", amount, category,
                                            receiver, t1))
    IN  AppendTxn(a3, receiver,
                  create_transaction_record(kind \o "_in", amount, None,
                                            sender, t2))

handle_transfer(sender, receiver, amount, category, pin) ==
    LET user_data == accounts[sender] IN
    IF pin = user_data.pin THEN
        IF Exceeds(amount, BalanceOf(user_data)) THEN
            /\ last' = OutcomePin("transfer", sender, "InsufficientFunds", pin)
            /\ UNCHANGED <<accounts, now>>
        ELSE IF receiver \notin Usernames THEN
            \* line 376 raises KeyError after line 375 has debited the sender
            /\ accounts' = Debit(accounts, sender, amount)
            /\ last' = OutcomePin("transfer", sender, "KeyError", pin)
            /\ UNCHANGED now
        ELSE
            \* e: the time that passes between the two clock readings
            \E e \in Elapsed :
                /\ accounts' = MoveMoney(accounts, sender, receiver, amount,
                                         "transfer", category, now, now + e)
                /\ now' = now + e
                /\ last' = OutcomePin("transfer", sender, "ok", pin)
    ELSE
        /\ last' = OutcomePin("transfer", sender, "InvalidPin", pin)
        /\ UNCHANGED <<accounts, now>>

Transfer ==
    \E sender \in Actors, receiver \in Receivers, amount \in Amounts,
       category \in CategoryInputs, pin \in PinInputs :
        /\ Budget
        /\ UNCHANGED asleep
        /\ handle_transfer(sender, receiver, amount, category, pin)
        /\ UNCHANGED <<logged_in_user, page, strikes, paid_count>>
        /\ Spend

(***************************************************************************)
(* S7: handle_deposit, handle_withdrawal                                   *)
(***************************************************************************)
handle_deposit(user, amount) ==
    /\ accounts' = AppendTxn(Credit(accounts, user, amount), user,
                             create_transaction_record("deposit", amount, None,
                                                       "self", now))
    /\ last' = Outcome("deposit", user, "ok")

Deposit ==
    \E user \in Actors, amount \in Amounts :
        /\ Budget
        /\ UNCHANGED asleep
        /\ handle_deposit(user, amount)
        /\ UNCHANGED <<logged_in_user, page, now, strikes, paid_count>>
        /\ Spend

handle_withdrawal(user, amount, category, pin) ==
    LET user_data == accounts[user] IN
    IF pin = user_data.pin THEN
        IF Exceeds(amount, BalanceOf(user_data)) THEN
            /\ last' = OutcomePin("withdraw", user, "InsufficientFunds", pin)
            /\ UNCHANGED accounts
        ELSE
            /\ accounts' = AppendTxn(Debit(accounts, user, amount), user,
                               create_transaction_record("withdraw", amount,
                                                         category, "cash", now))
            /\ last' = OutcomePin("withdraw", user, "ok", pin)
    ELSE
        /\ last' = OutcomePin("withdraw", user, "InvalidPin", pin)
        /\ UNCHANGED accounts

Withdraw ==
    \E user \in Actors, amount \in Amounts, category \in CategoryInputs,
       pin \in PinInputs :
        /\ Budget
        /\ UNCHANGED asleep
        /\ handle_withdrawal(user, amount, category, pin)
        /\ UNCHANGED <<logged_in_user, page, now, strikes, paid_count>>
        /\ Spend

(***************************************************************************)
(* S7: handle_qr_payment                                                   *)
(*                                                                         *)
(* A payload string is modelled by what json.loads makes of it: `shape`    *)
(* is "not_json" (JSONDecodeError), "not_object" (a list, number or null,  *)
(* which has no .get) or "object"; in an object `payee` is the string     *)
(* under "payee" (None when the key is missing) and `amount_kind` tells    *)
(* what is under "amount" and what float() of line 396 makes of it:        *)
(*   "number"        a JSON number, `amount` in mills                      *)
(*   "missing"       no key, the default 0                                 *)
(*   "numeric_text"  a JSON string float() parses ("400"), `amount` is     *)
(*                   the parsed value in mills                             *)
(*   "text"          a JSON string float() rejects: ValueError             *)
(*   "true", "false" JSON booleans: float gives 1.0 and 0.0                *)
(*   "null", "list", "object"   float raises TypeError                     *)
(***************************************************************************)
Payload(shape, payee, amount_kind, amount) ==
    [shape |-> shape, payee |-> payee, amount_kind |-> amount_kind,
     amount |-> amount]

\* float(payload.get("amount", 0)) of line 396, in mills, for the kinds on
\* which float returns
FloatOfAmount(payload) ==
    CASE payload.amount_kind \in {"number", "numeric_text"} -> payload.amount
      [] payload.amount_kind = "true" -> 1000
      [] OTHER -> 0

\* the kinds on which float raises TypeError, which line 407 does not catch
FloatTypeError(payload) == payload.amount_kind \in {"null", "list", "object"}

\* the kind on which float raises ValueError, which line 407 catches
FloatValueError(payload) == payload.amount_kind = "text"

PayloadInputs ==
    {Payload("object", "bob", "number", 400000),
     Payload("object", "zed", "number", 400000),
     Payload("object", "alice", "number", 900000),
     Payload("object", "", "number", 400000),
     Payload("object", "bob", "missing", 0),
     Payload("not_json", None, "missing", 0)}

\* what a scanner may hand over: an amount with three decimals that lies
\* between two cents (400.015), an amount written as a JSON string, and
\* the ways a payload can fail to be an object with a payee and a numeric
\* amount > 0
ScannedPayloads ==
    {Payload("object", "bob", "number", 400015),
     Payload("object", "bob", "numeric_text", 400000),
     Payload("object", "alice", "true", 0),
     Payload("object", "bob", "false", 0),
     Payload("object", "bob", "text", 0),
     Payload("object", "bob", "null", 0),
     Payload("object", "bob", "list", 0),
     Payload("object", "bob", "missing", 0),
     Payload("object", "bob", "number", 0),
     Payload("object", "bob", "number", -400000),
     Payload("object", None, "number", 400000),
     Payload("object", "", "number", 400000),
     Payload("not_object", None, "missing", 0),
     Payload("not_json", None, "missing", 0)}

handle_qr_payment(payer, payload, category, pin) ==
    LET user_data == accounts[payer]
        payee == payload.payee
        amount == FloatOfAmount(payload)
    IN
    IF payload.shape = "not_json" THEN
        /\ last' = OutcomePin("qr_pay", payer, "MalformedPayload", pin)
        /\ UNCHANGED <<accounts, now>>
    ELSE IF payload.shape = "not_object" THEN
        /\ last' = OutcomePin("qr_pay", payer, "AttributeError", pin)
        /\ UNCHANGED <<accounts, now>>
    ELSE IF FloatTypeError(payload) THEN
        /\ last' = OutcomePin("qr_pay", payer, "TypeError", pin)
        /\ UNCHANGED <<accounts, now>>
    ELSE IF FloatValueError(payload) THEN
        /\ last' = OutcomePin("qr_pay", payer, "MalformedPayload", pin)
        /\ UNCHANGED <<accounts, now>>
    ELSE IF payee = None \/ payee = "" \/ ~(amount > 0) THEN
        /\ last' = OutcomePin("qr_pay", payer, "MalformedPayload", pin)
        /\ UNCHANGED <<accounts, now>>
    ELSE IF payee = payer THEN
        /\ last' = OutcomePin("qr_pay", payer, "SelfPayment", pin)
        /\ UNCHANGED <<accounts, now>>
    ELSE IF Exceeds(amount, BalanceOf(user_data)) THEN
        /\ last' = OutcomePin("qr_pay", payer, "InsufficientFunds", pin)
        /\ UNCHANGED <<accounts, now>>
    ELSE IF pin # user_data.pin THEN
        /\ last' = OutcomePin("qr_pay", payer, "InvalidPin", pin)
        /\ UNCHANGED <<accounts, now>>
    ELSE IF payee \notin Usernames THEN
        \* line 403 raises KeyError after line 402 has debited the payer;
        \* the except clause of line 407 does not catch it
        /\ accounts' = Debit(accounts, payer, amount)
        /\ last' = OutcomePin("qr_pay", payer, "KeyError", pin)
        /\ UNCHANGED now
    ELSE
        \E e \in Elapsed :
            /\ accounts' = MoveMoney(accounts, payer, payee, amount, "qr",
                                     category, now, now + e)
            /\ now' = now + e
            /\ last' = OutcomePin("qr_pay", payer, "ok", pin)

QrPay ==
    \E payer \in Actors, payload \in PayloadInputs,
       category \in CategoryInputs, pin \in PinInputs :
        /\ Budget
        /\ UNCHANGED asleep
        /\ handle_qr_payment(payer, payload, category, pin)
        /\ UNCHANGED <<logged_in_user, page, strikes, paid_count>>
        /\ Spend

QrScan ==
    \E payer \in Actors, payload \in ScannedPayloads,
       category \in CategoryInputs, pin \in PinInputs :
        /\ Budget
        /\ UNCHANGED asleep
        /\ handle_qr_payment(payer, payload, category, pin)
        /\ UNCHANGED <<logged_in_user, page, strikes, paid_count>>
        /\ Spend

(***************************************************************************)
(* S7: handle_bill_split                                                   *)
(***************************************************************************)
\* round(total_amount / num_people, 2) of line 412, in mills: the float
\* quotient of the float total, rounded as round rounds a float.
SplitAmount_trunc(total_amount, num_people) ==
    (total_amount \div (10 * num_people)) * 10

SplitAmount(total_amount, num_people) ==
    RoundQuotient(total_amount, num_people)

\* The clock readings of a call that reads the clock n times, the first
\* time at t0: between two readings time passes, or not.
ClockReadings(t0, n) ==
    {ts \in [1 .. n -> t0 .. t0 + n] :
        /\ ts[1] = t0
        /\ \A k \in 2 .. n : ts[k] - ts[k - 1] \in Elapsed}

\* The number of records lines 413-414 create: one for every payer up to
\* and including the first that has no account, where line 415 raises
\* KeyError and ends the loop.
RecordsCreated(accs, users_to_split) ==
    LET unknown == {k \in 1 .. Len(users_to_split) :
                       users_to_split[k] \notin DOMAIN accs}
    IN  IF unknown = {} THEN Len(users_to_split)
        ELSE CHOOSE k \in unknown : \A j \in unknown : k <= j

\* The loop of lines 413-415 over users_to_split[k..]; ts[k] is the clock
\* reading of the record made for users_to_split[k] (line 72).
RECURSIVE SplitLoop(_, _, _, _, _, _)
SplitLoop(accs, requester, split_amount, users_to_split, k, ts) ==
    IF k > Len(users_to_split) THEN accs
    ELSE IF users_to_split[k] \notin DOMAIN accs THEN accs
    ELSE SplitLoop([accs EXCEPT ![users_to_split[k]].requests =
                        Append(@, create_payment_request_record(
                                      requester, split_amount, ts[k]))],
                   requester, split_amount, users_to_split, k + 1, ts)

RECURSIVE PaidLoop(_, _, _)
PaidLoop(paid, users_to_split, k) ==
    IF k > Len(users_to_split) THEN paid
    ELSE IF users_to_split[k] \notin DOMAIN paid THEN paid
    ELSE PaidLoop([paid EXCEPT ![users_to_split[k]] = Append(@, 0)],
                  users_to_split, k + 1)

handle_bill_split(requester, total_amount, users_to_split) ==
    IF users_to_split = <<>> THEN
        /\ last' = Outcome("split", requester, "EmptyPayerSet")
        /\ UNCHANGED <<accounts, paid_count, now>>
    ELSE
        LET num_people == Len(users_to_split) + 1
            split_amount == SplitAmount(total_amount, num_people)
            n == RecordsCreated(accounts, users_to_split)
        IN
        /\ last' = Outcome("split", requester,
                           IF \A k \in 1 .. Len(users_to_split) :
                                  users_to_split[k] \in Usernames
                           THEN "ok" ELSE "KeyError")
        /\ paid_count' = PaidLoop(paid_count, users_to_split, 1)
        /\ \E ts \in ClockReadings(now, n) :
              /\ accounts' = SplitLoop(accounts, requester, split_amount,
                                       users_to_split, 1, ts)
              /\ now' = ts[n]

BillSplit ==
    \E requester \in Requesters, total_amount \in SplitTotals,
       users_to_split \in PayerLists :
        /\ Budget
        /\ UNCHANGED asleep
        /\ handle_bill_split(requester, total_amount, users_to_split)
        /\ UNCHANGED <<logged_in_user, page, strikes>>
        /\ Spend

(***************************************************************************)
(* S7: handle_payment_request                                              *)
(***************************************************************************)
\* lines 453-454: the first request of the payer whose id is the id of the
\* request given gets the new status
FirstWithId(requests, id) ==
    LET matches == {j \in 1 .. Len(requests) : requests[j].id = id}
    IN  CHOOSE j \in matches : \A k \in matches : j <= k

SetStatus(accs, payer_username, id, new_status) ==
    [accs EXCEPT ![payer_username].requests =
        [@ EXCEPT ![FirstWithId(@, id)].status = new_status]]

\* `i` is the position in the payer's list of the request object given
handle_payment_request_noreturn(payer_username, i, new_status) ==
    LET payer_data == accounts[payer_username]
        request == payer_data.requests[i]
        req_username == request.requester
        amount == request.amount
    IN
    IF req_username \notin Usernames THEN
        /\ last' = Outcome("resolve", payer_username, "KeyError")
        /\ UNCHANGED <<accounts, now, paid_count>>
    ELSE IF new_status = "approved" THEN
        IF ~Exceeds(amount, BalanceOf(payer_data)) THEN
            \E e \in Elapsed :
                /\ accounts' =
                     SetStatus(MoveMoney(accounts, payer_username,
                                         req_username, amount, "transfer",
                                         "Bills", now, now + e),
                               payer_username, request.id, new_status)
                /\ now' = now + e
                /\ paid_count' =
                     [paid_count EXCEPT ![payer_username][i] = @ + 1]
                /\ last' = Outcome("resolve", payer_username, "approved")
        ELSE
            /\ accounts' = SetStatus(accounts, payer_username, request.id,
                                     new_status)
            /\ last' = Outcome("resolve", payer_username, "InsufficientFunds")
            /\ UNCHANGED <<now, paid_count>>
    ELSE
        /\ accounts' = SetStatus(accounts, payer_username, request.id,
                                 new_status)
        /\ last' = Outcome("resolve", payer_username, "declined")
        /\ UNCHANGED <<now, paid_count>>

handle_payment_request(payer_username, i, new_status) ==
    LET payer_data == accounts[payer_username]
        request == payer_data.requests[i]
        req_username == request.requester
        amount == request.amount
    IN
    IF req_username \notin Usernames THEN
        /\ last' = Outcome("resolve", payer_username, "KeyError")
        /\ UNCHANGED <<accounts, now, paid_count>>
    ELSE IF new_status = "approved" THEN
        IF ~Exceeds(amount, BalanceOf(payer_data)) THEN
            \E e \in Elapsed :
                /\ accounts' =
                     SetStatus(MoveMoney(accounts, payer_username,
                                         req_username, amount, "transfer",
                                         "Bills", now, now + e),
                               payer_username, request.id, new_status)
                /\ now' = now + e
                /\ paid_count' =
                     [paid_count EXCEPT ![payer_username][i] = @ + 1]
                /\ last' = Outcome("resolve", payer_username, "approved")
        ELSE
            /\ last' = Outcome("resolve", payer_username, "InsufficientFunds")
            /\ UNCHANGED <<accounts, now, paid_count>>
    ELSE
        /\ accounts' = SetStatus(accounts, payer_username, request.id,
                                 new_status)
        /\ last' = Outcome("resolve", payer_username, "declined")
        /\ UNCHANGED <<now, paid_count>>

ResolveRequest ==
    \E payer_username \in Usernames, new_status \in {"approved", "declined"} :
        \E i \in 1 .. Len(accounts[payer_username].requests) :
            /\ Budget
            /\ UNCHANGED asleep
            /\ handle_payment_request(payer_username, i, new_status)
            /\ UNCHANGED <<logged_in_user, page, strikes>>
            /\ Spend

(***************************************************************************)
(* S7: handle_pin_change                                                   *)
(***************************************************************************)
handle_pin_change(user, old_pin, new_pin1, new_pin2) ==
    LET user_data == accounts[user] IN
    IF old_pin # user_data.pin THEN
        /\ last' = OutcomePin("pin_change", user, "InvalidPin", old_pin)
        /\ UNCHANGED accounts
    ELSE IF ~IsFourDigits(new_pin1) THEN
        /\ last' = OutcomePin("pin_change", user, "InvalidFormat", old_pin)
        /\ UNCHANGED accounts
    ELSE IF new_pin1 # new_pin2 THEN
        /\ last' = OutcomePin("pin_change", user, "Mismatch", old_pin)
        /\ UNCHANGED accounts
    ELSE
        /\ accounts' = [accounts EXCEPT ![user].pin = new_pin1]
        /\ last' = OutcomePin("pin_change", user, "ok", old_pin)

PinChange ==
    \E user \in Actors, old_pin \in PinInputs, entries \in NewPinEntries :
        /\ Budget
        /\ UNCHANGED asleep
        /\ handle_pin_change(user, old_pin, entries[1], entries[2])
        /\ UNCHANGED <<logged_in_user, page, now, strikes, paid_count>>
        /\ Spend

(***************************************************************************)
(* Specifications                                                          *)
(***************************************************************************)
\* The ledger and the request broker.
Next == OpenAccount \/ account_created \/ Transfer \/ QrPay \/ Deposit
        \/ Withdraw \/ BillSplit \/ ResolveRequest

Spec == Init /\ [][Next]_vars

\* The authorization gate under a moving clock.
NextAuth == Tick \/ LoginAttempt \/ handle_logout

SpecAuth == Init /\ [][NextAuth]_vars

\* The PIN-protected operations next to the login gate: an account that
\* has collected wrong login PINs, or is locked, is used as a sender.
GateLogin ==
    \E username \in Actors, pin \in PinInputs :
        /\ UNCHANGED asleep
        /\ handle_login_attempt(username, pin)
        /\ UNCHANGED paid_count
        /\ SpendTime

\* a withdrawal that leaves small change, and the withdrawal of the change
WithdrawChange ==
    \E user \in Actors, amount \in ChangeAmounts,
       category \in CategoryInputs, pin \in PinInputs :
        /\ Budget
        /\ UNCHANGED asleep
        /\ handle_withdrawal(user, amount, category, pin)
        /\ UNCHANGED <<logged_in_user, page, now, strikes, paid_count>>
        /\ Spend

NextGate == GateLogin \/ Withdraw \/ WithdrawChange \/ Transfer \/ QrPay

SpecGate == Init /\ [][NextGate]_vars

\* The forms that validate what is typed or scanned: PIN change, account
\* creation and the QR scanner, on accounts that carry failed logins.
NextForms == GateLogin \/ PinChange \/ CreateAccount \/ account_created
             \/ QrScan

SpecForms == Init /\ [][NextForms]_vars

(***************************************************************************)
(* S6, S8: the application as its pages reach it.  main() shows the login  *)
(* page, the registration page or, for the user logged in, the main        *)
(* application, whose sidebar opens every form, the Change PIN form        *)
(* included; between two submissions time may pass.  The dashboard's       *)
(* approve and decline buttons are not here: handle_bill_split has no      *)
(* caller, so no request ever exists to be shown.                          *)
(***************************************************************************)
\* line 124: the login page shows its form to nobody who is logged in
PageLogin ==
    /\ page = "login"
    /\ logged_in_user = None
    /\ UNCHANGED <<paid_count, asleep>>
    \* the budget counts the attempts that fail and change the store or
    \* move the clock
    /\ \E username \in Receivers, pin \in PinInputs :
          /\ handle_login_attempt(username, pin)
          /\ IF last'.outcome = "ok" THEN ops' = ops ELSE Spend
          /\ ops' <= MaxOps

\* line 124: the login page, rendered while a user is logged in (the call
\* of handle_account_creation that has woken set the page at line 368),
\* goes to the dashboard
PageLoginRedirect ==
    /\ page = "login"
    /\ logged_in_user # None
    /\ page' = "dashboard"
    /\ last' = Outcome("navigate", None, "ok")
    /\ UNCHANGED <<accounts, logged_in_user, now, strikes, paid_count, ops,
                   asleep>>

PageGoCreate ==
    /\ page = "login"
    /\ logged_in_user = None
    /\ page' = "create_account"
    /\ last' = Outcome("navigate", None, "ok")
    /\ UNCHANGED <<accounts, logged_in_user, now, strikes, paid_count, ops,
                   asleep>>

PageBackToLogin ==
    /\ page = "create_account"
    /\ page' = "login"
    /\ last' = Outcome("navigate", None, "ok")
    /\ UNCHANGED <<accounts, logged_in_user, now, strikes, paid_count, ops,
                   asleep>>

PageCreateAccount ==
    /\ page = "create_account"
    /\ \E username \in NewUsernames :
          /\ Budget
          /\ handle_account_creation(username, "Zed Zebra", Chars("9999"),
                                     Chars("9999"), 50000)
          /\ Spend
    /\ UNCHANGED logged_in_user

PageDeposit ==
    /\ page = "dashboard"
    /\ UNCHANGED <<logged_in_user, page, now, strikes, paid_count>>
    /\ \E amount \in PageAmounts :
          /\ Budget
          /\ UNCHANGED asleep
          /\ handle_deposit(logged_in_user, amount)
          /\ Spend

PageWithdraw ==
    /\ page = "dashboard"
    /\ UNCHANGED <<logged_in_user, page, now, strikes, paid_count>>
    /\ \E amount \in Amounts, category \in CategoryInputs, pin \in PinInputs :
          /\ Budget
          /\ UNCHANGED asleep
          /\ handle_withdrawal(logged_in_user, amount, category, pin)
          /\ Spend

PageTransfer ==
    /\ page = "dashboard"
    /\ UNCHANGED <<logged_in_user, page, strikes, paid_count>>
    /\ \E receiver \in (Receivers \cap Usernames) \ {logged_in_user},
          amount \in PageAmounts, category \in CategoryInputs,
          pin \in PinInputs :
          /\ Budget
          /\ UNCHANGED asleep
          /\ handle_transfer(logged_in_user, receiver, amount, category, pin)
          /\ Spend

PageQrPay ==
    /\ page = "dashboard"
    /\ UNCHANGED <<logged_in_user, page, strikes, paid_count>>
    /\ \E payload \in PayloadInputs, category \in CategoryInputs,
          pin \in PinInputs :
          /\ Budget
          /\ UNCHANGED asleep
          /\ handle_qr_payment(logged_in_user, payload, category, pin)
          /\ Spend

\* line 331: the form of the Change PIN page, for the user logged in
PagePinChange ==
    /\ page = "dashboard"
    /\ UNCHANGED <<logged_in_user, page, now, strikes, paid_count>>
    /\ \E old_pin \in PinInputs, entries \in PagePinEntries :
          /\ Budget
          /\ UNCHANGED asleep
          /\ handle_pin_change(logged_in_user, old_pin, entries[1], entries[2])
          /\ Spend

PageLogout ==
    /\ page = "dashboard"
    /\ handle_logout

\* line 344: time passes between two submissions, whatever page is shown,
\* and the clock the next attempt reads has moved on.  The budget counts
\* the waits that no lockout window is open for.
PageWait ==
    \E d \in TickSteps :
        /\ now + d <= MaxTime
        /\ now' = now + d
        /\ asleep' = StillAsleep(now + d)
        /\ page' = IF asleep' # asleep THEN "login" ELSE page
        /\ last' = Outcome("tick", None, "ok")
        /\ ops' = IF \E u \in Usernames : Locked(u) THEN ops ELSE ops + 1
        /\ ops' <= MaxOps
        /\ UNCHANGED <<accounts, logged_in_user, strikes, paid_count>>

NextPages == PageLogin \/ PageLoginRedirect \/ PageGoCreate \/ PageBackToLogin
             \/ PageCreateAccount
             \/ account_created \/ PageDeposit \/ PageWithdraw \/ PageTransfer
             \/ PageQrPay \/ PagePinChange \/ PageLogout \/ PageWait

SpecPages == Init /\ [][NextPages]_vars

(***************************************************************************)
(* Measures over the store used by the properties                          *)
(***************************************************************************)
RECURSIVE SumOver(_, _)
SumOver(f, S) ==
    IF S = {} THEN 0
    ELSE LET u == CHOOSE x \in S : TRUE IN f[u] + SumOver(f, S \ {u})

TotalBalance(accs) ==
    SumOver([u \in DOMAIN accs |-> accs[u].balance], DOMAIN accs)

Ledger(accs) ==
    [u \in DOMAIN accs |->
        [balance |-> BalanceOf(accs[u]),
         transactions |-> accs[u].transactions]]

TxnsOf(accs, u) == IF u \in DOMAIN accs THEN accs[u].transactions ELSE <<>>

\* the `_out` records held by s that name r, and the `_in` records held by
\* r that name s, of one kind and amount
OutCount(accs, s, r, kind, a) ==
    Cardinality({i \in 1 .. Len(TxnsOf(accs, s)) :
        /\ TxnsOf(accs, s)[i].type = kind \o "_out"
        /\ TxnsOf(accs, s)[i].counterparty = r
        /\ TxnsOf(accs, s)[i].amount = a})

InCount(accs, s, r, kind, a) ==
    Cardinality({i \in 1 .. Len(TxnsOf(accs, r)) :
        /\ TxnsOf(accs, r)[i].type = kind \o "_in"
        /\ TxnsOf(accs, r)[i].counterparty = s
        /\ TxnsOf(accs, r)[i].amount = a})

\* the records of u that are one side of a movement between two accounts
Movements(accs, u) ==
    {accs[u].transactions[i] : i \in 1 .. Len(accs[u].transactions)}
        \ {t \in {accs[u].transactions[i] :
                     i \in 1 .. Len(accs[u].transactions)} :
               t.type \in {"deposit", "withdraw"}}

Direction(accs, suffix) ==
    SumOver([u \in DOMAIN accs |->
                Cardinality({i \in 1 .. Len(accs[u].transactions) :
                    accs[u].transactions[i].type
                        \in {"transfer" \o suffix, "qr" \o suffix}})],
            DOMAIN accs)

\* the sum of the amounts stored in the records txns[1..k], those of
\* deposit, transfer_in and qr_in counted +, the others -
RECURSIVE SignedSum(_, _)
SignedSum(txns, k) ==
    IF k = 0 THEN 0
    ELSE SignedSum(txns, k - 1)
           + (IF txns[k].type \in {"deposit", "transfer_in", "qr_in"}
              THEN txns[k].amount ELSE 0 - txns[k].amount)

MoneyMovers == {"transfer", "qr_pay", "resolve"}

Completed(l) ==
    \/ l.op \in {"transfer", "qr_pay"} /\ l.outcome = "ok"
    \/ l.op = "resolve" /\ l.outcome = "approved"

(***************************************************************************)
(* C1: every account's balance is >= 0 in every reachable state, and a     *)
(* call refused for insufficient funds has changed nothing in the store.   *)
(***************************************************************************)
C1_BalanceNonNegative ==
    /\ [](\A u \in Usernames :
             \/ accounts[u].balance > 0
             \/ accounts[u].balance = 0 /\ accounts[u].balance_drift >= 0)
    /\ [][last'.outcome = "InsufficientFunds" => accounts' = accounts]_vars

C1_Witness ==
    /\ last.outcome = "InsufficientFunds"
    /\ last.user \in Usernames
    /\ accounts[last.user].balance \in 0 .. 399999

(***************************************************************************)
(* C2: the sum of all balances changes only in a step of deposit,          *)
(* withdraw or createAccount; every other call leaves it unchanged.        *)
(***************************************************************************)
C2_Conservation ==
    [][last'.op \notin {"deposit", "withdraw", "create"}
          => TotalBalance(accounts') = TotalBalance(accounts)]_vars

(***************************************************************************)
(* C3: the `_out` records and the `_in` records of the store correspond    *)
(* one to one (same kind, same amount, each naming the other account),     *)
(* and every completed transfer, QR payment and approval adds exactly one  *)
(* `_out` record and exactly one `_in` record.                             *)
(***************************************************************************)
C3_Pairing ==
    /\ [](\A u \in Usernames :
             \A t \in Movements(accounts, u) :
                 \A kind \in {"transfer", "qr"} :
                     /\ OutCount(accounts, u, t.counterparty, kind, t.amount)
                          = InCount(accounts, u, t.counterparty, kind, t.amount)
                     /\ OutCount(accounts, t.counterparty, u, kind, t.amount)
                          = InCount(accounts, t.counterparty, u, kind, t.amount))
    /\ [][Completed(last')
            => /\ Direction(accounts', "_out") = Direction(accounts, "_out") + 1
               /\ Direction(accounts', "_in") = Direction(accounts, "_in") + 1]_vars

C3_Witness ==
    /\ Completed(last)
    /\ \E s \in Usernames, r \in Usernames :
          /\ s # r
          /\ OutCount(accounts, s, r, "qr", 400000) = 1
          /\ InCount(accounts, s, r, "qr", 400000) = 1

(***************************************************************************)
(* C4: a transfer, QR payment or request resolution that does not          *)
(* complete changes no balance and no transaction list.                    *)
(***************************************************************************)
C4_AllOrNothing ==
    [][last'.op \in MoneyMovers /\ ~Completed(last')
          => Ledger(accounts') = Ledger(accounts)]_vars

(***************************************************************************)
(* C5: for every payment request at most one call moves money.             *)
(***************************************************************************)
C5_PaidAtMostOnce ==
    \A u \in DOMAIN paid_count :
        \A i \in 1 .. Len(paid_count[u]) : paid_count[u][i] <= 1

(***************************************************************************)
(* C6: a request that is approved or declined keeps its status, and a      *)
(* resolution of such a request changes nothing.                           *)
(***************************************************************************)
C6_StatusTerminal ==
    [][\A u \in Usernames :
          \A i \in 1 .. Len(accounts[u].requests) :
              accounts[u].requests[i].status # "pending"
                  => accounts'[u].requests[i].status
                         = accounts[u].requests[i].status]_vars

(***************************************************************************)
(* C7: an account goes from not locked to locked only by the third wrong   *)
(* login PIN counted since its last successful login or its last lockout.  *)
(***************************************************************************)
C7_LockAfterThree ==
    [][\A u \in Usernames :
          ~Locked(u) /\ (now' < accounts'[u].locked_until)
              => strikes[u] = MAX_LOGIN_ATTEMPTS - 1]_vars

(***************************************************************************)
(* C8: a login attempt on a locked account ends with AccountLocked         *)
(* whatever the PIN and changes nothing in the store or the session;       *)
(* locked_until is written only by an attempt on an account that is not    *)
(* locked, to the clock reading that attempt takes when it locks + 60 s.   *)
(***************************************************************************)
C8_LockedAttemptInert ==
    [][/\ \A u \in Usernames :
             last'.op = "login" /\ last'.user = u /\ Locked(u)
                => /\ last'.outcome = "AccountLocked"
                   /\ UNCHANGED <<accounts, logged_in_user, page>>
       /\ \A u \in Usernames :
             accounts'[u].locked_until # accounts[u].locked_until
                => /\ ~Locked(u)
                   /\ now' - now \in Elapsed
                   /\ accounts'[u].locked_until = now' + LockoutMs]_vars

C8_Witness ==
    /\ last.op = "login" /\ last.outcome = "AccountLocked"
    /\ last.pin_ok = "yes"
    /\ now = accounts[last.user].locked_until - 1
    /\ accounts[last.user].failed_attempts = MAX_LOGIN_ATTEMPTS
    /\ logged_in_user = None

(***************************************************************************)
(* C9: a login with the account's PIN at a clock reading >= locked_until   *)
(* succeeds and leaves failed_attempts = 0; an account leaves the locked   *)
(* state only by the clock moving, and a clock step of 60 s leaves no      *)
(* account locked.                                                         *)
(***************************************************************************)
C9_ExpiryAndReset ==
    [][/\ \A u \in Usernames :
             /\ last'.op = "login" /\ last'.user = u /\ last'.pin_ok = "yes"
             /\ now >= accounts[u].locked_until
             => /\ last'.outcome = "ok"
                /\ accounts'[u].failed_attempts = 0
                /\ logged_in_user' = u
       /\ \A u \in Usernames :
             Locked(u) /\ ~(now' < accounts'[u].locked_until)
                => now' > now /\ accounts'[u] = accounts[u]
       /\ now' >= now + LockoutMs
             => \A u \in Usernames : ~(now' < accounts'[u].locked_until)]_vars

C9_Witness ==
    /\ last.op = "login" /\ last.outcome = "ok"
    /\ accounts[last.user].locked_until > 0
    /\ now >= accounts[last.user].locked_until
    /\ accounts[last.user].failed_attempts = 0
    /\ logged_in_user = last.user

(***************************************************************************)
(* C10: a wrong PIN given to withdraw, transfer or qrPay increments the    *)
(* account's failed_attempts and, at 3, sets locked_until = now + 60 s.    *)
(***************************************************************************)
C10_WrongPinCounted ==
    [][\A u \in Usernames :
          /\ last'.op \in {"withdraw", "transfer", "qr_pay"}
          /\ last'.user = u /\ last'.pin_ok = "no"
          => /\ accounts'[u].failed_attempts = accounts[u].failed_attempts + 1
             /\ accounts'[u].failed_attempts >= MAX_LOGIN_ATTEMPTS
                   => accounts'[u].locked_until = now + LockoutMs]_vars

(***************************************************************************)
(* C11: a withdrawal, transfer or QR payment whose sender is locked ends   *)
(* with AccountLocked, whatever the PIN, and leaves the sender's balance   *)
(* and transaction list as they were.                                      *)
(***************************************************************************)
C11_LockedNoDebit ==
    [][\A u \in Usernames :
          /\ Locked(u)
          /\ last'.op \in {"withdraw", "transfer", "qr_pay"}
          /\ last'.user = u
          => /\ last'.outcome = "AccountLocked"
             /\ accounts'[u].balance = accounts[u].balance
             /\ accounts'[u].transactions = accounts[u].transactions]_vars

(***************************************************************************)
(* C12: a withdrawal, a transfer, or a QR payment whose payload is well    *)
(* formed and names a payee other than the payer, called with the sender's *)
(* PIN and an amount above the sender's balance ends with                  *)
(* InsufficientFunds and changes no balance and no transaction list,       *)
(* whether the receiver has an account or not; called with an amount > 0   *)
(* that the balance covers (and, for the two payments, another existing    *)
(* account as receiver) it succeeds and takes exactly the amount from the  *)
(* sender's balance.                                                       *)
(***************************************************************************)
C12_FundsCheck ==
    [][last'.op \in {"withdraw", "transfer", "qr_pay"} =>
       \A sender \in Actors, category \in CategoryInputs :
          LET pin == accounts[sender].pin
              balance == accounts[sender].balance
              \* the amount, as a float, against the float the balance is
              Above(amount) ==
                  FloatGreater(ToFloat(amount), BalanceOf(accounts[sender]))
              Refused == /\ last'.outcome = "InsufficientFunds"
                         /\ Ledger(accounts') = Ledger(accounts)
              \* the balance falls by the amount, to the mill
              Debited(amount) ==
                  /\ last'.outcome = "ok"
                  /\ accounts'[sender].balance = balance - amount
          IN
          /\ \A amount \in Amounts \cup ChangeAmounts :
                (/\ last'.op = "withdraw"
                 /\ handle_withdrawal(sender, amount, category, pin))
                    => /\ Above(amount) => Refused
                       /\ ~Above(amount) => Debited(amount)
          /\ \A amount \in Amounts, receiver \in Receivers :
                (/\ last'.op = "transfer"
                 /\ handle_transfer(sender, receiver, amount, category, pin))
                    => /\ Above(amount) => Refused
                       /\ (~Above(amount) /\ receiver \in Usernames
                              /\ receiver # sender) => Debited(amount)
          /\ \A payload \in PayloadInputs :
                (/\ last'.op = "qr_pay"
                 /\ handle_qr_payment(sender, payload, category, pin)
                 /\ payload.shape = "object"
                 /\ payload.payee \notin {None, ""}
                 /\ payload.amount_kind = "number" /\ payload.amount > 0
                 /\ payload.payee # sender)
                    => /\ Above(payload.amount) => Refused
                       /\ (~Above(payload.amount)
                              /\ payload.payee \in Usernames)
                             => Debited(payload.amount)]_vars

(***************************************************************************)
(* C12 as stated: the refusal with InsufficientFunds holds of every QR     *)
(* payment with a well-formed payload, the sender's PIN and an amount      *)
(* above the sender's balance, the payment to oneself included.            *)
(***************************************************************************)
C12_FundsCheckAsStated ==
    [][last'.op \in {"withdraw", "transfer", "qr_pay"} =>
       \A sender \in Actors, category \in CategoryInputs :
          LET pin == accounts[sender].pin
              balance == accounts[sender].balance
              Above(amount) ==
                  FloatGreater(ToFloat(amount), BalanceOf(accounts[sender]))
              Refused == /\ last'.outcome = "InsufficientFunds"
                         /\ Ledger(accounts') = Ledger(accounts)
              Debited(amount) ==
                  /\ last'.outcome = "ok"
                  /\ accounts'[sender].balance = balance - amount
          IN
          /\ \A amount \in Amounts \cup ChangeAmounts :
                (/\ last'.op = "withdraw"
                 /\ handle_withdrawal(sender, amount, category, pin))
                    => /\ Above(amount) => Refused
                       /\ ~Above(amount) => Debited(amount)
          /\ \A amount \in Amounts, receiver \in Receivers :
                (/\ last'.op = "transfer"
                 /\ handle_transfer(sender, receiver, amount, category, pin))
                    => /\ Above(amount) => Refused
                       /\ (~Above(amount) /\ receiver \in Usernames
                              /\ receiver # sender) => Debited(amount)
          /\ \A payload \in PayloadInputs :
                (/\ last'.op = "qr_pay"
                 /\ handle_qr_payment(sender, payload, category, pin)
                 /\ payload.shape = "object"
                 /\ payload.payee \notin {None, ""}
                 /\ payload.amount_kind = "number" /\ payload.amount > 0)
                    => /\ Above(payload.amount) => Refused
                       /\ (~Above(payload.amount)
                              /\ payload.payee \in Usernames
                              /\ payload.payee # sender)
                             => Debited(payload.amount)]_vars

C12_Witness ==
    /\ last.op = "qr_pay" /\ last.outcome = "InsufficientFunds"
    /\ last.pin_ok = "yes"
    /\ accounts[last.user].balance = 30000
    /\ Len(accounts[last.user].transactions) = 2
    /\ \E i \in 1 .. 2 : accounts[last.user].transactions[i].type = "withdraw"

(***************************************************************************)
(* C13: no account holds a transfer_out, transfer_in, qr_out or qr_in      *)
(* record whose counterparty is the account's own username.                *)
(***************************************************************************)
C13_NoSelfPayment ==
    \A u \in Usernames :
        \A i \in 1 .. Len(accounts[u].transactions) :
            accounts[u].transactions[i].type
                \in {"transfer_out", "transfer_in", "qr_out", "qr_in"}
            => accounts[u].transactions[i].counterparty # u

(***************************************************************************)
(* C14: a QR payment whose payload is not a JSON object with a non-empty   *)
(* payee and a numeric amount > 0 ends with MalformedPayload, raises no    *)
(* fault and changes nothing in the store.                                 *)
(***************************************************************************)
C14_MalformedPayload ==
    [][last'.op = "qr_pay" =>
       \A payer \in Actors, payload \in ScannedPayloads,
          category \in CategoryInputs, pin \in PinInputs :
          (/\ handle_qr_payment(payer, payload, category, pin)
           /\ \/ payload.shape # "object"
              \/ payload.payee \in {None, ""}
              \/ payload.amount_kind # "number"
              \/ payload.amount <= 0)
          => /\ last'.outcome = "MalformedPayload"
             /\ accounts' = accounts]_vars

(***************************************************************************)
(* C15: a bill split over n >= 1 payers that all have an account appends   *)
(* to each payer's request list exactly one pending request of the         *)
(* requester, its amount being total / (n + 1) rounded to the nearest      *)
(* cent, and changes no balance, no transaction list and no other request  *)
(* list; a split over no payer changes nothing.                            *)
(***************************************************************************)
C15_SplitShares ==
    [][last'.op = "split" =>
       \A requester \in Requesters, total_amount \in SplitTotals,
          users_to_split \in PayerLists :
          LET n == Len(users_to_split)
              Listed(u) == \E k \in 1 .. n : users_to_split[k] = u
              IsShare(a) ==
                  /\ a % 10 = 0
                  /\ 2 * (a * (n + 1) - total_amount) <= 10 * (n + 1)
                  /\ 2 * (total_amount - a * (n + 1)) <= 10 * (n + 1)
          IN
          handle_bill_split(requester, total_amount, users_to_split)
          => IF n = 0 THEN accounts' = accounts
             ELSE (\A k \in 1 .. n : users_to_split[k] \in Usernames)
                  => /\ DOMAIN accounts' = Usernames
                     /\ Ledger(accounts') = Ledger(accounts)
                     /\ \A u \in Usernames :
                          LET old == accounts[u].requests
                              new == accounts'[u].requests
                          IN  IF Listed(u)
                              THEN /\ Len(new) = Len(old) + 1
                                   /\ SubSeq(new, 1, Len(old)) = old
                                   /\ new[Len(new)].status = "pending"
                                   /\ new[Len(new)].requester = requester
                                   /\ IsShare(new[Len(new)].amount)
                              ELSE new = old]_vars

C15_Witness ==
    /\ last.op = "split" /\ last.outcome = "ok"
    /\ accounts[last.user].requests = <<>>
    /\ \A u \in {"bob", "charlie"} :
          /\ Len(accounts[u].requests) = 1
          /\ accounts[u].requests[1].status = "pending"
          /\ accounts[u].requests[1].requester = last.user
          /\ accounts[u].requests[1].amount = 66670
    /\ accounts["disha"].requests = <<>>

(***************************************************************************)
(* C16: approving a pending request whose amount is above the payer's      *)
(* balance ends with InsufficientFunds and changes nothing, so the request *)
(* stays pending; approving a pending request that the balance covers, as  *)
(* it does a refused one once the balance has grown, pays it: the payer    *)
(* is debited and the requester credited by the amount.                    *)
(***************************************************************************)
C16_RefusedStaysPending ==
    [][/\ last'.op = "resolve" /\ last'.outcome = "InsufficientFunds"
             => accounts' = accounts
       /\ last'.op = "resolve" =>
          \A payer_username \in Usernames :
             \A i \in 1 .. Len(accounts[payer_username].requests) :
                 LET request == accounts[payer_username].requests[i]
                     balance == accounts[payer_username].balance
                     req_username == request.requester
                 IN
                 (/\ last'.user = payer_username
                  /\ request.status = "pending"
                  /\ req_username \in Usernames
                  /\ req_username # payer_username
                  /\ handle_payment_request(payer_username, i, "approved"))
                 => IF FloatGreater(ToFloat(request.amount),
                                    BalanceOf(accounts[payer_username]))
                    THEN /\ last'.outcome = "InsufficientFunds"
                         /\ accounts'[payer_username].requests[i].status
                                = "pending"
                    ELSE /\ last'.outcome = "approved"
                         /\ accounts'[payer_username].balance
                                = balance - request.amount
                         /\ accounts'[req_username].balance
                                = accounts[req_username].balance
                                      + request.amount]_vars

C16_Witness ==
    /\ last.op = "resolve" /\ last.outcome = "approved" /\ last.user = "bob"
    /\ Len(accounts["bob"].requests) = 1
    /\ accounts["bob"].requests[1].amount
           > get_initial_mock_data["bob"].balance
    /\ accounts["bob"].requests[1].status = "approved"
    /\ paid_count["bob"][1] = 1
    /\ accounts["bob"].balance = 349990

(***************************************************************************)
(* C17: a PIN change sets the PIN to the new PIN exactly when the old PIN  *)
(* given is the account's PIN, the new PIN is 4 digits and its two entries *)
(* are equal, and leaves the PIN as it was otherwise; in both cases it     *)
(* changes nothing else (failed_attempts, locked_until, balance,           *)
(* transactions and requests included).  Every account's PIN is a string   *)
(* of exactly 4 digits in every reachable state.                           *)
(***************************************************************************)
C17_PinChange ==
    /\ [](\A u \in Usernames :
             /\ Len(accounts[u].pin) = 4
             /\ \A i \in 1 .. 4 :
                   \E run \in DigitRanges :
                       /\ run[1] <= accounts[u].pin[i]
                       /\ accounts[u].pin[i] <= run[2])
    /\ [][last'.op = "pin_change" =>
          \A user \in {last'.user} \cap Actors :
             /\ [accounts' EXCEPT ![user].pin = accounts[user].pin] = accounts
             /\ \A old_pin \in PinInputs,
                   new_pin1 \in NewPinInputs, new_pin2 \in NewPinInputs :
                   handle_pin_change(user, old_pin, new_pin1, new_pin2)
                   => accounts'[user].pin =
                        IF /\ old_pin = accounts[user].pin
                           /\ Len(new_pin1) = 4
                           /\ \A i \in 1 .. 4 : \E run \in DigitRanges :
                                 run[1] <= new_pin1[i] /\ new_pin1[i] <= run[2]
                           /\ new_pin1 = new_pin2
                        THEN new_pin1 ELSE accounts[user].pin]_vars

C17_Witness ==
    /\ last.op = "pin_change" /\ last.outcome = "ok"
    /\ accounts[last.user].pin = ArabicIndic1234
    /\ accounts[last.user].failed_attempts = MAX_LOGIN_ATTEMPTS
    /\ Locked(last.user)
    /\ accounts[last.user].balance = 430000

(***************************************************************************)
(* C18: an account creation leaves every existing account as it was.  It   *)
(* fails and changes nothing when the username is empty or taken, when the *)
(* PIN is not 4 digits or when the two PIN entries differ; when it         *)
(* succeeds it adds exactly one account, under the username given, with    *)
(* the initial deposit as balance, failed_attempts 0, locked_until 0 and   *)
(* one transaction, a deposit record with counterparty "self".  (A call    *)
(* that succeeds has stored the account when it goes to sleep, outcome     *)
(* "sleeping"; the rest of the call changes no account.)                   *)
(***************************************************************************)
C18_CreateAccount ==
    [][last'.op = "create" =>
       /\ last'.outcome # "sleeping" => accounts' = accounts
       /\ \A u \in Usernames :
             u \in DOMAIN accounts' /\ accounts'[u] = accounts[u]
       /\ \A username \in {last'.user} \cap NewUsernames,
             display_name \in DisplayNames,
             pin1 \in NewPins, pin2 \in NewPins,
             initial_amount \in InitialAmounts :
             handle_account_creation(username, display_name, pin1, pin2,
                                     initial_amount)
             => /\ (\/ username = "" \/ username \in Usernames
                    \/ Len(pin1) # 4
                    \/ \E i \in 1 .. Len(pin1) : \A run \in DigitRanges :
                           pin1[i] < run[1] \/ run[2] < pin1[i]
                    \/ pin1 # pin2)
                      => last'.outcome # "sleeping"
                /\ last'.outcome = "sleeping"
                      => /\ DOMAIN accounts' = Usernames \cup {username}
                         /\ username \notin Usernames
                         /\ accounts'[username].pin = pin1
                         /\ accounts'[username].balance = initial_amount
                         /\ accounts'[username].failed_attempts = 0
                         /\ accounts'[username].locked_until = 0
                         /\ accounts'[username].requests = <<>>
                         /\ Len(accounts'[username].transactions) = 1
                         /\ accounts'[username].transactions[1].type = "deposit"
                         /\ accounts'[username].transactions[1].counterparty
                                = "self"
                         /\ accounts'[username].transactions[1].amount
                                = initial_amount]_vars

C18_Witness ==
    /\ last.op = "create" /\ last.outcome = "ok"
    /\ last.user \in Usernames \ DOMAIN get_initial_mock_data
    /\ accounts[last.user].balance = 50000
    /\ Len(accounts[last.user].transactions) = 1
    /\ accounts["alice"].failed_attempts = 2
    /\ accounts["alice"].balance = 430000
    /\ page = "login"

(***************************************************************************)
(* C19: every transaction record of the store has an amount > 0, the       *)
(* deposit record written by an account creation included.                 *)
(***************************************************************************)
C19_PositiveAmounts ==
    \A u \in Usernames :
        \A i \in 1 .. Len(accounts[u].transactions) :
            accounts[u].transactions[i].amount > 0

(***************************************************************************)
(* C20: no two transaction records of the store have the same id, the      *)
(* `_out` and the `_in` record of one payment included.                    *)
(***************************************************************************)
C20_UniqueTxnIds ==
    \A u \in Usernames, v \in Usernames :
        \A i \in 1 .. Len(accounts[u].transactions),
           j \in 1 .. Len(accounts[v].transactions) :
            (u # v \/ i # j)
                => accounts[u].transactions[i].id
                       # accounts[v].transactions[j].id

(***************************************************************************)
(* C22: a QR payment with a well-formed payload, a payee that is not the   *)
(* payer and a PIN that is not the payer's PIN ends with InvalidPin,       *)
(* whether the payer's balance covers the amount or not.                   *)
(***************************************************************************)
C22_WrongPinFirst ==
    [][last'.op = "qr_pay" =>
       \A payer \in Actors, payload \in PayloadInputs,
          category \in CategoryInputs, pin \in PinInputs :
          (/\ handle_qr_payment(payer, payload, category, pin)
           /\ payload.shape = "object"
           /\ payload.amount_kind = "number" /\ payload.amount > 0
           /\ payload.payee \notin {None, "", payer}
           /\ pin # accounts[payer].pin)
          => last'.outcome = "InvalidPin"]_vars

(***************************************************************************)
(* C23: the transaction log explains every balance.  Stated per step: in   *)
(* every call that does not fault, each account's balance changes by the   *)
(* signed sum of the amounts stored in the records the call appends to     *)
(* its list (the faulting calls are the subject of C4).                    *)
(***************************************************************************)
C23_LogExplainsBalance ==
    [][last'.outcome # "KeyError" =>
       \A u \in Usernames :
          LET old == accounts[u].transactions
              new == accounts'[u].transactions
          IN  accounts'[u].balance - accounts[u].balance
                = SignedSum(new, Len(new)) - SignedSum(old, Len(old))]_vars

(***************************************************************************)
(* C24: a resolution that succeeds gives the request it was called with    *)
(* the decision as status and leaves the status of every other request,    *)
(* of the payer and of every other account, as it was.                     *)
(***************************************************************************)
C24_ResolvesGivenRequest ==
    [][last'.op = "resolve" =>
       \A payer_username \in Usernames,
          new_status \in {"approved", "declined"} :
          \A i \in 1 .. Len(accounts[payer_username].requests) :
              (/\ handle_payment_request(payer_username, i, new_status)
               /\ last'.outcome = new_status)
              => \A u \in Usernames :
                    \A j \in 1 .. Len(accounts[u].requests) :
                        accounts'[u].requests[j].status =
                            IF u = payer_username /\ j = i THEN new_status
                            ELSE accounts[u].requests[j].status]_vars

(***************************************************************************)
(* C25: through the pages, logged_in_user becomes a username only by a     *)
(* login attempt for that username with the account's PIN while the        *)
(* account is not locked; the only balance a step decreases is that of     *)
(* the account logged in at that step; and a step taken while nobody is    *)
(* logged in changes the balance of no account.                            *)
(***************************************************************************)
C25_OnlyLoggedInPays ==
    [][/\ (logged_in_user' # logged_in_user /\ logged_in_user' # None)
             => /\ last'.op = "login" /\ last'.user = logged_in_user'
                /\ logged_in_user' \in Usernames
                /\ last'.pin_ok = "yes"
                /\ ~Locked(logged_in_user')
       /\ \A u \in Usernames :
             accounts'[u].balance < accounts[u].balance
                => u = logged_in_user
       /\ logged_in_user = None
             => \A u \in Usernames :
                   accounts'[u].balance = accounts[u].balance]_vars

\* alice has paid bob, changed her PIN, logged out, let time pass and
\* logged in again with the new PIN
C25_Witness ==
    /\ logged_in_user = "alice" /\ page = "dashboard"
    /\ last.op = "login" /\ last.outcome = "ok" /\ last.user = "alice"
    /\ last.pin_ok = "yes"
    /\ accounts["alice"].pin = Chars("2222")
    /\ now >= LockoutMs
    /\ accounts["alice"].balance
           = get_initial_mock_data["alice"].balance - 400000
    /\ accounts["bob"].balance = get_initial_mock_data["bob"].balance + 400000
====
